---- MODULE Spec2Model ----
(***************************************************************************)
(* State-machine model of osumapdl's download.py: the DownloadList work    *)
(* partition, the availability pre-check, the resume file, and the         *)
(* orchestrator loop of download() driving one Worker process per service  *)
(* (common.Downloader.download_mapsets) and the osu! cooldown timer.       *)
(***************************************************************************)
EXTENDS Integers, Sequences, FiniteSets, TLC

\* ---------------------------------------------------------------- bounds
\* Number of distinct mapset IDs a run may be given.
MaxIds == 2
\* Ceiling on how many QuotaExceeded answers osu! gives in one run.
MaxQuota == 1
\* Value of --max-errors (args.max_errors_in_a_row) used for the run.
max_errors_in_a_row == 2

\* ------------------------------------------------------------ vocabulary
IdNames == <<"1", "2", "3", "4">>
IDs == {IdNames[i] : i \in 1..MaxIds}

\* Return value not yet produced.
NoExit == -1

\* Exception classes a fetch may raise; NoError is Python's None.
NoError == "None"
MapsetUnavailable == "MapsetUnavailable"
QuotaExceeded == "QuotaExceeded"
OtherError == "Exception"

Range(s) == {s[i] : i \in 1..Len(s)}

\* list(a_set): the elements in some order, each once.
ListsOf(S) == {s \in [1..Cardinality(S) -> S] : Range(s) = S}

\* ------------------------------------------------------------ DownloadList
DownloadList(b, o, m, r) ==
    [osu_and_bloodcat |-> b, osu_only |-> o, bloodcat_only |-> m, resumed |-> r]

\* DownloadList.__len__
Size(dl) ==
    Cardinality(dl.osu_and_bloodcat) + Cardinality(dl.osu_only)
        + Cardinality(dl.bloodcat_only)

\* DownloadList.__isub__
Subtract(dl, other) ==
    [dl EXCEPT !.osu_and_bloodcat = @ \ other,
               !.osu_only = @ \ other,
               !.bloodcat_only = @ \ other]

\* Faulty variant: next_for_osu whose pop from osu_and_bloodcat leaves the ID behind.
next_for_osu_keep(dl) ==
    IF dl.osu_only # {}
    THEN {[item |-> <<x>>, dl |-> [dl EXCEPT !.osu_only = @ \ {x}]]
             : x \in dl.osu_only}
    ELSE IF dl.osu_and_bloodcat # {}
    THEN {[item |-> <<x>>, dl |-> dl] : x \in dl.osu_and_bloodcat}
    ELSE {[item |-> <<>>, dl |-> dl]}

\* Faulty variant: a next_for_osu that looks into osu_and_bloodcat first.
next_for_osu_both_first(dl) ==
    IF dl.osu_and_bloodcat # {}
    THEN {[item |-> <<x>>, dl |-> [dl EXCEPT !.osu_and_bloodcat = @ \ {x}]]
             : x \in dl.osu_and_bloodcat}
    ELSE IF dl.osu_only # {}
    THEN {[item |-> <<x>>, dl |-> [dl EXCEPT !.osu_only = @ \ {x}]]
             : x \in dl.osu_only}
    ELSE {[item |-> <<>>, dl |-> dl]}

\* DownloadList.next_for_osu: every result set.pop() may give.  item is <<>>
\* for None and <<id>> for an ID.
next_for_osu(dl) ==
    IF dl.osu_only # {}
    THEN {[item |-> <<x>>, dl |-> [dl EXCEPT !.osu_only = @ \ {x}]]
             : x \in dl.osu_only}
    ELSE IF dl.osu_and_bloodcat # {}
    THEN {[item |-> <<x>>, dl |-> [dl EXCEPT !.osu_and_bloodcat = @ \ {x}]]
             : x \in dl.osu_and_bloodcat}
    ELSE {[item |-> <<>>, dl |-> dl]}

\* Faulty variant: next_for_bloodcat that never looks into osu_and_bloodcat.
next_for_bloodcat_exclusive(dl) ==
    IF dl.bloodcat_only # {}
    THEN {[item |-> <<x>>, dl |-> [dl EXCEPT !.bloodcat_only = @ \ {x}]]
             : x \in dl.bloodcat_only}
    ELSE {[item |-> <<>>, dl |-> dl]}

\* DownloadList.next_for_bloodcat
next_for_bloodcat(dl) ==
    IF dl.bloodcat_only # {}
    THEN {[item |-> <<x>>, dl |-> [dl EXCEPT !.bloodcat_only = @ \ {x}]]
             : x \in dl.bloodcat_only}
    ELSE IF dl.osu_and_bloodcat # {}
    THEN {[item |-> <<x>>, dl |-> [dl EXCEPT !.osu_and_bloodcat = @ \ {x}]]
             : x \in dl.osu_and_bloodcat}
    ELSE {[item |-> <<>>, dl |-> dl]}

Disjoint(dl) ==
    /\ dl.osu_and_bloodcat \cap dl.osu_only = {}
    /\ dl.osu_and_bloodcat \cap dl.bloodcat_only = {}
    /\ dl.osu_only \cap dl.bloodcat_only = {}

\* --------------------------------------------------------------- variables
VARIABLES
    use_osu, use_bloodcat,      \* args.use_osu, args.use_bloodcat
    dl_list,                    \* the DownloadList of _main / download
    pc,                         \* where _main / download stands
    checked,                    \* IDs the loop of update_bloodcat_availability has visited
    resume_file,                \* <<>> or <<the JSON object written>>
    exit_code,                  \* value main() returned, NoExit while running
    osu_queue, bloodcat_queue,  \* the two Queue(maxsize=1) inboxes
    results_queue,              \* the shared results Queue
    osu_proc, bloodcat_proc,    \* the Worker processes
    osu_cooldown_proc,          \* the cooldown Process
    osu_busy, bloodcat_busy,
    osu_errors_in_a_row, bloodcat_errors_in_a_row,
    missing_on_osu, missing_on_bloodcat,
    total, done,
    ret,                        \* value download() is about to return
    hist                        \* history of the run, read by the properties only

args == <<use_osu, use_bloodcat>>
main_vars == <<dl_list, pc, checked, resume_file, exit_code>>
queue_vars == <<osu_queue, bloodcat_queue, results_queue>>
proc_vars == <<osu_proc, bloodcat_proc, osu_cooldown_proc>>
loop_vars == <<osu_busy, bloodcat_busy, osu_errors_in_a_row,
               bloodcat_errors_in_a_row, missing_on_osu, missing_on_bloodcat,
               total, done, ret>>
vars == <<args, main_vars, queue_vars, proc_vars, loop_vars, hist>>

\* A Process object: Process() is "unstarted"; a Worker is "waiting" on its
\* inbox, "fetching" set_id, or "exited".
Proc(st, id) == [state |-> st, set_id |-> id]

\* The lines an ids file may hold: read_ids takes every non-empty stripped
\* line as an ID, so besides the digit strings also the word 'stop'.
IdLines == IDs \cup {"stop"}

ZeroCount == [x \in IdLines |-> 0]

InitHist ==
    [initial_count |-> 0,       \* len(dl_list) when download() started
     successes |-> ZeroCount,   \* success outcomes consumed, per ID
     dropped |-> ZeroCount,     \* total -= 1 performed, per ID
     re_dispatch |-> ZeroCount, \* fill_queues puts into an inbox of an ID
                                \* already in a missing set, per ID
     re_quota |-> ZeroCount,    \* QuotaExceeded outcomes consumed for an ID
                                \* already in a missing set, per ID
     quota |-> 0,               \* QuotaExceeded answers given
     osu_streak |-> 0,          \* osu errors consumed since its last success
     bloodcat_streak |-> 0,
     requeue |-> [x \in IdLines |-> "no"],
                                \* per ID: "waiting" once QuotaExceeded put it
                                \* back; "cooled" once cooldown() has put its
                                \* outcome after that; "late" once fill_queues
                                \* put it into an inbox after that outcome was
                                \* put; "no" again once it succeeded or was
                                \* dropped
     cleared |-> {},            \* services whose success outcome found their
                                \* counter at max_errors_in_a_row - 1 or more
     snapshots |-> 0,           \* resume files written
     check_failed |-> FALSE,    \* check_availability has raised
     reported |-> {},           \* IDs check_availability returned False for
     returned |-> <<>>]         \* <<service, item>> of the last next_for_osu
                                \* or next_for_bloodcat called on its own

\* The partitions read_ids can produce: a plain ID file gives every ID in
\* osu_and_bloodcat; a resume file gives any three lists (here: disjoint ones,
\* as write_resume_file produces them).
ReadIds ==
    {DownloadList(b, {}, {}, FALSE) : b \in SUBSET IDs}
    \cup {dl \in {DownloadList(b, o, m, TRUE) :
                    b \in SUBSET IDs, o \in SUBSET IDs, m \in SUBSET IDs}
            : Disjoint(dl)}

\* Everything download() has not touched yet.
NotStarted ==
    /\ checked = {}
    /\ resume_file = <<>>
    /\ exit_code = NoExit
    /\ osu_queue = <<>>
    /\ bloodcat_queue = <<>>
    /\ results_queue = <<>>
    /\ osu_proc = Proc("unstarted", "")
    /\ bloodcat_proc = Proc("unstarted", "")
    /\ osu_cooldown_proc = "unstarted"
    /\ osu_busy = FALSE
    /\ bloodcat_busy = FALSE
    /\ osu_errors_in_a_row = 0
    /\ bloodcat_errors_in_a_row = 0
    /\ missing_on_osu = {}
    /\ missing_on_bloodcat = {}
    /\ total = 0
    /\ done = 0
    /\ ret = NoExit
    /\ hist = InitHist

\* State of _main after parse_args, the two argument checks and read_ids.
Init ==
    /\ use_osu \in BOOLEAN
    /\ use_bloodcat \in BOOLEAN
    /\ use_osu \/ use_bloodcat
    /\ dl_list \in ReadIds
    /\ pc = "scan"
    /\ NotStarted

\* State at the call of download(): any non-empty partition a resume file
\* can hold (download() does not read dl_list.resumed), any choice of services.
InitDownload ==
    /\ use_osu \in BOOLEAN
    /\ use_bloodcat \in BOOLEAN
    /\ use_osu \/ use_bloodcat
    /\ dl_list \in {dl \in ReadIds : dl.resumed /\ Size(dl) > 0}
    /\ pc = "start"
    /\ NotStarted

download_vars == <<queue_vars, proc_vars, loop_vars>>

\* ------------------------------------------------------------------ _main
\* dl_list -= scan_existing_sets(out_dir); nothing left: return 0.
ScanExisting ==
    /\ pc = "scan"
    /\ \E already \in SUBSET IDs :
         LET dl == Subtract(dl_list, already) IN
         /\ dl_list' = dl
         /\ IF Size(dl) = 0
            THEN pc' = "exit" /\ exit_code' = 0
            ELSE pc' = "login" /\ exit_code' = exit_code
    /\ UNCHANGED <<args, checked, resume_file, download_vars, hist>>

\* new_osu_dl / new_bloodcat_dl: a failed osu! login raises FriendlyError.
\* With both services enabled, line 140 then prints
\* messages.checking_bloodcat_availability: messages.py as it stands defines
\* checking_chimu_availability only, so the lookup raises AttributeError and
\* main() returns 1; with a messages module that has the name, it prints.
NewDownloaders ==
    /\ pc = "login"
    /\ \E ok \in BOOLEAN, has_message \in BOOLEAN :
         IF (use_osu /\ ~ok) \/ (use_osu /\ use_bloodcat /\ ~has_message)
         THEN pc' = "exit" /\ exit_code' = 1
         ELSE /\ pc' = IF use_osu /\ use_bloodcat THEN "precheck" ELSE "start"
              /\ exit_code' = exit_code
    /\ UNCHANGED <<args, dl_list, checked, resume_file, download_vars, hist>>

\* Faulty variant: an end of update_bloodcat_availability that forgets
\* osu_and_bloodcat -= osu_only.
finish_availability_keep(dl) == dl

\* Faulty variant: the subtraction the wrong way round, osu_only -= osu_and_bloodcat.
finish_availability_swap(dl) ==
    [dl EXCEPT !.osu_only = @ \ dl.osu_and_bloodcat]

\* update_bloodcat_availability, after its loop: osu_and_bloodcat -= osu_only.
finish_availability(dl) ==
    [dl EXCEPT !.osu_and_bloodcat = @ \ dl.osu_only]

\* update_bloodcat_availability on a resumed list: returns at once.
PrecheckResumed ==
    /\ pc = "precheck"
    /\ dl_list.resumed
    /\ pc' = "write_resume"
    /\ UNCHANGED <<args, dl_list, checked, resume_file, exit_code,
                   download_vars, hist>>

\* Faulty variant: a loop that swallows the exception of check_availability
\* and goes on as if the ID were available.
CheckAvailability_swallow ==
    /\ pc = "precheck"
    /\ ~dl_list.resumed
    /\ \E set_id \in dl_list.osu_and_bloodcat \ checked :
       \E answer \in {"available", "unavailable", "raise"} :
         /\ checked' = checked \cup {set_id}
         /\ dl_list' = IF answer = "unavailable"
                       THEN [dl_list EXCEPT !.osu_only = @ \cup {set_id}]
                       ELSE dl_list
         /\ hist' = IF answer = "raise"
                    THEN [hist EXCEPT !.check_failed = TRUE]
                    ELSE IF answer = "unavailable"
                    THEN [hist EXCEPT !.reported = @ \cup {set_id}]
                    ELSE hist
    /\ UNCHANGED <<args, pc, exit_code, resume_file, download_vars>>

\* One turn of the loop of update_bloodcat_availability: check_availability
\* answers True or False, or raises ConnectionError / SearchError, which
\* becomes a FriendlyError and main() returns 1.
CheckAvailability ==
    /\ pc = "precheck"
    /\ ~dl_list.resumed
    /\ \E set_id \in dl_list.osu_and_bloodcat \ checked :
       \E answer \in {"available", "unavailable", "raise"} :
         /\ checked' = checked \cup {set_id}
         /\ dl_list' = IF answer = "unavailable"
                       THEN [dl_list EXCEPT !.osu_only = @ \cup {set_id}]
                       ELSE dl_list
         /\ IF answer = "raise"
            THEN /\ pc' = "exit"
                 /\ exit_code' = 1
                 /\ hist' = [hist EXCEPT !.check_failed = TRUE]
            ELSE /\ pc' = pc
                 /\ exit_code' = exit_code
                 /\ hist' = IF answer = "unavailable"
                            THEN [hist EXCEPT !.reported = @ \cup {set_id}]
                            ELSE hist
    /\ UNCHANGED <<args, resume_file, download_vars>>

\* The loop of update_bloodcat_availability is over.
FinishAvailability ==
    /\ pc = "precheck"
    /\ ~dl_list.resumed
    /\ checked = dl_list.osu_and_bloodcat
    /\ dl_list' = finish_availability(dl_list)
    /\ checked' = {}
    /\ pc' = "write_resume"
    /\ UNCHANGED <<args, resume_file, exit_code, download_vars, hist>>

\* Faulty variant: a write_resume_file without its test of the file name.
IsResumeFile_never == FALSE

\* ids_file.lower().endswith('.resume'): read_ids sets resumed for exactly
\* these files.
IsResumeFile == dl_list.resumed

\* json.dump of {'set_ids': [...], 'osu_exc': [...], 'bloodcat_exc': [...]}:
\* the text of the file, token by token.
json_dump(obj) ==
    <<"{", "set_ids", "[">> \o obj.set_ids
        \o <<"]", "osu_exc", "[">> \o obj.osu_exc
        \o <<"]", "bloodcat_exc", "[">> \o obj.bloodcat_exc
        \o <<"]", "}">>

\* json.load: the list that follows a key runs from its "[" to the next "]".
ListAt(text, key) ==
    LET k == CHOOSE i \in 1..Len(text) :
                 text[i] = key /\ \A j \in 1..(i - 1) : text[j] # key
        close == CHOOSE i \in (k + 2)..Len(text) :
                     text[i] = "]" /\ \A j \in (k + 2)..(i - 1) : text[j] # "]"
    IN SubSeq(text, k + 2, close - 1)

json_load(text) ==
    [set_ids |-> ListAt(text, "set_ids"),
     osu_exc |-> ListAt(text, "osu_exc"),
     bloodcat_exc |-> ListAt(text, "bloodcat_exc")]

\* The text write_resume_file may write for a partition: one per order in
\* which list() enumerates each set.
write_resume_file(dl) ==
    {json_dump([set_ids |-> a, osu_exc |-> b, bloodcat_exc |-> c]) :
        a \in ListsOf(dl.osu_and_bloodcat),
        b \in ListsOf(dl.osu_only),
        c \in ListsOf(dl.bloodcat_only)}

\* Faulty variant: a read_resume_file that mixes up the two exclusive lists.
read_resume_file_swapped(text) ==
    LET j == json_load(text)
    IN DownloadList(Range(j.set_ids), Range(j.bloodcat_exc),
                    Range(j.osu_exc), TRUE)

\* read_resume_file of a well-formed file: three sets, resumed = True.
read_resume_file(text) ==
    LET j == json_load(text)
    IN DownloadList(Range(j.set_ids), Range(j.osu_exc),
                    Range(j.bloodcat_exc), TRUE)

\* write_resume_file: nothing for a run started from a resume file, else the
\* three sets dumped as lists.
WriteResumeFile ==
    /\ pc = "write_resume"
    /\ IF IsResumeFile
       THEN UNCHANGED <<resume_file, hist>>
       ELSE /\ \E text \in write_resume_file(dl_list) :
                 resume_file' = <<text>>
            /\ hist' = [hist EXCEPT !.snapshots = @ + 1]
    /\ pc' = "start"
    /\ UNCHANGED <<args, dl_list, checked, exit_code, download_vars>>

\* The run is interrupted after write_resume_file and started again on the
\* file it wrote: read_ids goes to read_resume_file.
ReadResumeFile ==
    /\ pc = "start"
    /\ resume_file # <<>>
    /\ dl_list' = read_resume_file(resume_file[1])
    /\ pc' = "scan"
    /\ UNCHANGED <<args, checked, resume_file, exit_code, download_vars, hist>>

\* --------------------------------------------------------------- download
\* The part of download()'s state that fill_queues reads and writes.
FillState(dl, ob, bb, oq, bq) ==
    [dl |-> dl, osu_busy |-> ob, bloodcat_busy |-> bb,
     osu_queue |-> oq, bloodcat_queue |-> bq]

\* Faulty variant: a guard of fill_queues that forgets osu_busy.
osu_is_free_always(st) == use_osu

\* fill_queues: "if args.use_osu and not osu_busy".
osu_is_free(st) == use_osu /\ ~st.osu_busy

\* fill_queues: "if args.use_bloodcat and not bloodcat_busy".
bloodcat_is_free(st) == use_bloodcat /\ ~st.bloodcat_busy

\* fill_queues: every state it may leave, one per choice of set.pop().  A put
\* appends to the inbox; an inbox longer than 1 stands for a put that blocks.
fill_queues(st) ==
    LET osu_part(s) ==
            IF osu_is_free(s)
            THEN {IF r.item # <<>>
                  THEN [s EXCEPT !.dl = r.dl, !.osu_busy = TRUE,
                                 !.osu_queue = Append(@, r.item[1])]
                  ELSE s
                    : r \in next_for_osu(s.dl)}
            ELSE {s}
        bloodcat_part(s) ==
            IF bloodcat_is_free(s)
            THEN {IF r.item # <<>>
                  THEN [s EXCEPT !.dl = r.dl, !.bloodcat_busy = TRUE,
                                 !.bloodcat_queue = Append(@, r.item[1])]
                  ELSE s
                    : r \in next_for_bloodcat(s.dl)}
            ELSE {s}
    IN UNION {bloodcat_part(s) : s \in osu_part(st)}

\* History: count the IDs of the set known that fill_queues put into an inbox.
Dispatched(h, before, after, known) ==
    LET last(q) == q[Len(q)]
        count(c, q0, q1) ==
            IF Len(q1) > Len(q0) /\ last(q1) \in known
            THEN [c EXCEPT ![last(q1)] = @ + 1]
            ELSE c
        again(r, q0, q1) ==
            IF Len(q1) > Len(q0)
            THEN [r EXCEPT ![last(q1)] = IF @ = "cooled" THEN "late" ELSE @]
            ELSE r
    IN [h EXCEPT
          !.re_dispatch =
              count(count(@, before.osu_queue, after.osu_queue),
                    before.bloodcat_queue, after.bloodcat_queue),
          !.requeue =
              again(again(@, before.osu_queue, after.osu_queue),
                    before.bloodcat_queue, after.bloodcat_queue)]

\* The state fill_queues left becomes the state of download().
Filled(st) ==
    /\ dl_list' = st.dl
    /\ osu_busy' = st.osu_busy
    /\ bloodcat_busy' = st.bloodcat_busy
    /\ osu_queue' = st.osu_queue
    /\ bloodcat_queue' = st.bloodcat_queue

\* download() up to its loop: the queues, the copies of the exclusive sets,
\* total, the Worker processes of the enabled services, the first fill_queues.
StartDownload ==
    /\ pc = "start"
    /\ missing_on_osu' = dl_list.bloodcat_only
    /\ missing_on_bloodcat' = dl_list.osu_only
    /\ total' = Size(dl_list)
    /\ osu_proc' = IF use_osu THEN Proc("waiting", "") ELSE osu_proc
    /\ bloodcat_proc' = IF use_bloodcat THEN Proc("waiting", "") ELSE bloodcat_proc
    /\ LET st == FillState(dl_list, FALSE, FALSE, <<>>, <<>>) IN
       \E s2 \in fill_queues(st) :
         /\ Filled(s2)
         /\ hist' = Dispatched([hist EXCEPT !.initial_count = Size(dl_list)],
                               st, s2,
                               dl_list.bloodcat_only \cup dl_list.osu_only)
    /\ done' = 0
    /\ pc' = "loop"
    /\ UNCHANGED <<args, checked, resume_file, exit_code, results_queue,
                   osu_cooldown_proc, osu_errors_in_a_row,
                   bloodcat_errors_in_a_row, ret>>

\* ----------------------------------------------------------------- Worker
\* download_mapsets: id = in_queue.get(); 'stop' ends the Worker, anything
\* else is fetched.
worker_get(in_queue) ==
    IF Head(in_queue) = "stop"
    THEN Proc("exited", "")
    ELSE Proc("fetching", Head(in_queue))

\* Faulty variant: a Worker that puts its outcomes under the name 'osu'
\* whatever its own name is.
worker_put_as_osu(name, id, error) ==
    [worker |-> "osu", set_id |-> id, error |-> error]

\* download_mapsets: one out_queue.put((name, id, e-or-None)) per fetch.
worker_put(name, id, error) ==
    [worker |-> name, set_id |-> id, error |-> error]

\* What osu.Downloader.download_mapset may do: return, or raise
\* MapsetUnavailable, QuotaExceeded, or anything else.
OsuAnswers ==
    {NoError, MapsetUnavailable, OtherError}
        \cup (IF hist.quota < MaxQuota THEN {QuotaExceeded} ELSE {})

\* What bloodcat.Downloader.download_mapset may do.
BloodcatAnswers == {NoError, MapsetUnavailable, OtherError}

OsuWorkerGet ==
    /\ osu_proc.state = "waiting"
    /\ osu_queue # <<>>
    /\ osu_proc' = worker_get(osu_queue)
    /\ osu_queue' = Tail(osu_queue)
    /\ UNCHANGED <<args, main_vars, bloodcat_queue, results_queue,
                   bloodcat_proc, osu_cooldown_proc, loop_vars, hist>>

OsuWorkerDownload ==
    /\ osu_proc.state = "fetching"
    /\ \E error \in OsuAnswers :
         /\ results_queue' =
                Append(results_queue, worker_put("osu", osu_proc.set_id, error))
         /\ hist' = IF error = QuotaExceeded
                    THEN [hist EXCEPT !.quota = @ + 1]
                    ELSE hist
    /\ osu_proc' = Proc("waiting", "")
    /\ UNCHANGED <<args, main_vars, osu_queue, bloodcat_queue,
                   bloodcat_proc, osu_cooldown_proc, loop_vars>>

BloodcatWorkerGet ==
    /\ bloodcat_proc.state = "waiting"
    /\ bloodcat_queue # <<>>
    /\ bloodcat_proc' = worker_get(bloodcat_queue)
    /\ bloodcat_queue' = Tail(bloodcat_queue)
    /\ UNCHANGED <<args, main_vars, osu_queue, results_queue,
                   osu_proc, osu_cooldown_proc, loop_vars, hist>>

BloodcatWorkerDownload ==
    /\ bloodcat_proc.state = "fetching"
    /\ \E error \in BloodcatAnswers :
         results_queue' =
             Append(results_queue,
                    worker_put("bloodcat", bloodcat_proc.set_id, error))
    /\ bloodcat_proc' = Proc("waiting", "")
    /\ UNCHANGED <<args, main_vars, osu_queue, bloodcat_queue,
                   osu_proc, osu_cooldown_proc, loop_vars, hist>>

\* Faulty variant: a cooldown() that ends without putting its outcome.
Cooldown_silent ==
    /\ osu_cooldown_proc = "sleeping"
    /\ osu_cooldown_proc' = "finished"
    /\ UNCHANGED <<args, main_vars, queue_vars, osu_proc, bloodcat_proc,
                   loop_vars, hist>>

\* cooldown(): the sleep is over, ('timer', '', None) goes on the results queue.
Cooldown ==
    /\ osu_cooldown_proc = "sleeping"
    /\ results_queue' = Append(results_queue, worker_put("timer", "", NoError))
    /\ osu_cooldown_proc' = "finished"
    /\ hist' = [hist EXCEPT !.requeue =
                   [x \in IdLines |->
                        IF @[x] = "waiting" THEN "cooled" ELSE @[x]]]
    /\ UNCHANGED <<args, main_vars, osu_queue, bloodcat_queue,
                   osu_proc, bloodcat_proc, loop_vars>>

\* ----------------------------------------------------- the loop of download
\* "while done < total: worker, set_id, error = results_queue.get()"
Receiving == pc = "loop" /\ done < total /\ results_queue # <<>>
msg == Head(results_queue)
Now == FillState(dl_list, osu_busy, bloodcat_busy, osu_queue, bloodcat_queue)

\* Faulty variant: a success branch that keeps the error counter.
errors_after_success_keep(errors) == errors

\* Success branch: "osu_errors_in_a_row = 0" / "bloodcat_errors_in_a_row = 0".
errors_after_success(errors) == 0

\* Faulty variant: a ceiling test that gives up one error earlier.
may_retry_early(errors) == errors + 1 < max_errors_in_a_row

\* "if osu_errors_in_a_row < args.max_errors_in_a_row" (and the bloodcat twin).
may_retry(errors) == errors < max_errors_in_a_row

\* Faulty variant: a branch that drops the ID without total -= 1.
missing_on_osu_branch_forget(dl, tot, set_id, missing_b) ==
    IF ~use_bloodcat \/ set_id \in missing_b
    THEN [dl |-> dl, total |-> tot]
    ELSE [dl |-> [dl EXCEPT !.bloodcat_only = @ \cup {set_id}], total |-> tot]

\* Faulty variant: a branch that puts the ID back into osu_and_bloodcat.
missing_on_osu_branch_both(dl, tot, set_id, missing_b) ==
    IF ~use_bloodcat \/ set_id \in missing_b
    THEN [dl |-> dl, total |-> tot - 1]
    ELSE [dl |-> [dl EXCEPT !.osu_and_bloodcat = @ \cup {set_id}], total |-> tot]

\* MapsetUnavailable from osu!: drop the ID (total -= 1) or leave it to bloodcat.
missing_on_osu_branch(dl, tot, set_id, missing_b) ==
    IF ~use_bloodcat \/ set_id \in missing_b
    THEN [dl |-> dl, total |-> tot - 1]
    ELSE [dl |-> [dl EXCEPT !.bloodcat_only = @ \cup {set_id}], total |-> tot]

\* Faulty variant: a branch that never looks at missing_on_osu.
missing_on_bloodcat_branch_requeue(dl, tot, set_id, missing_o) ==
    IF ~use_osu
    THEN [dl |-> dl, total |-> tot - 1]
    ELSE [dl |-> [dl EXCEPT !.osu_only = @ \cup {set_id}], total |-> tot]

\* MapsetUnavailable from bloodcat: drop the ID or leave it to osu!.
missing_on_bloodcat_branch(dl, tot, set_id, missing_o) ==
    IF ~use_osu \/ set_id \in missing_o
    THEN [dl |-> dl, total |-> tot - 1]
    ELSE [dl |-> [dl EXCEPT !.osu_only = @ \cup {set_id}], total |-> tot]

\* Faulty variant: a QuotaExceeded branch that loses the ID.
requeue_lost(dl, set_id, missing_b) == dl

\* Faulty variant: a QuotaExceeded branch that never looks at
\* missing_on_bloodcat.
requeue_always_both(dl, set_id, missing_b) ==
    IF use_bloodcat
    THEN [dl EXCEPT !.osu_and_bloodcat = @ \cup {set_id}]
    ELSE [dl EXCEPT !.osu_only = @ \cup {set_id}]

\* QuotaExceeded: the ID goes back into osu_and_bloodcat or osu_only.
requeue(dl, set_id, missing_b) ==
    IF use_bloodcat /\ set_id \notin missing_b
    THEN [dl EXCEPT !.osu_and_bloodcat = @ \cup {set_id}]
    ELSE [dl EXCEPT !.osu_only = @ \cup {set_id}]

\* ('timer', '', None): osu_busy = False; fill_queues(); continue
HandleTimer ==
    /\ Receiving
    /\ msg.error = NoError
    /\ msg.worker = "timer"
    /\ results_queue' = Tail(results_queue)
    /\ LET st == [Now EXCEPT !.osu_busy = FALSE] IN
       \E s2 \in fill_queues(st) :
         /\ Filled(s2)
         /\ hist' = Dispatched(hist, st, s2,
                               missing_on_osu \cup missing_on_bloodcat)
    /\ UNCHANGED <<args, pc, checked, resume_file, exit_code, proc_vars,
                   osu_errors_in_a_row, bloodcat_errors_in_a_row,
                   missing_on_osu, missing_on_bloodcat, total, done, ret>>

\* (worker, set_id, None) of a Worker: done += 1, the Worker's busy flag and
\* error counter are cleared, fill_queues().
HandleSuccess ==
    /\ Receiving
    /\ msg.error = NoError
    /\ msg.worker # "timer"
    /\ results_queue' = Tail(results_queue)
    /\ done' = done + 1
    /\ osu_errors_in_a_row' =
           IF msg.worker = "osu"
           THEN errors_after_success(osu_errors_in_a_row)
           ELSE osu_errors_in_a_row
    /\ bloodcat_errors_in_a_row' =
           IF msg.worker = "bloodcat"
           THEN errors_after_success(bloodcat_errors_in_a_row)
           ELSE bloodcat_errors_in_a_row
    /\ LET st == IF msg.worker = "osu"
                 THEN [Now EXCEPT !.osu_busy = FALSE]
                 ELSE IF msg.worker = "bloodcat"
                 THEN [Now EXCEPT !.bloodcat_busy = FALSE]
                 ELSE Now
           h == [hist EXCEPT
                   !.successes[msg.set_id] = @ + 1,
                   !.requeue[msg.set_id] = "no",
                   !.osu_streak = IF msg.worker = "osu" THEN 0 ELSE @,
                   !.bloodcat_streak = IF msg.worker = "bloodcat" THEN 0 ELSE @,
                   !.cleared =
                       IF \/ /\ msg.worker = "osu"
                             /\ osu_errors_in_a_row >= max_errors_in_a_row - 1
                          \/ /\ msg.worker = "bloodcat"
                             /\ bloodcat_errors_in_a_row >= max_errors_in_a_row - 1
                       THEN @ \cup {msg.worker} ELSE @]
       IN \E s2 \in fill_queues(st) :
            /\ Filled(s2)
            /\ hist' = Dispatched(h, st, s2,
                                  missing_on_osu \cup missing_on_bloodcat)
    /\ UNCHANGED <<args, pc, checked, resume_file, exit_code, proc_vars,
                   missing_on_osu, missing_on_bloodcat, total, ret>>

\* Faulty variant: a MapsetUnavailable branch that clears the error counter
\* as the success branch does.
HandleOsuUnavailable_reset ==
    /\ Receiving
    /\ msg.worker = "osu"
    /\ msg.error = MapsetUnavailable
    /\ results_queue' = Tail(results_queue)
    /\ missing_on_osu' = missing_on_osu \cup {msg.set_id}
    /\ osu_errors_in_a_row' = 0
    /\ LET r == missing_on_osu_branch(dl_list, total, msg.set_id,
                                      missing_on_bloodcat)
           st == [Now EXCEPT !.dl = r.dl, !.osu_busy = FALSE]
           h == IF r.total # total
                THEN [hist EXCEPT !.dropped[msg.set_id] = @ + 1,
                                  !.requeue[msg.set_id] = "no"]
                ELSE hist
       IN /\ total' = r.total
          /\ \E s2 \in fill_queues(st) :
               /\ Filled(s2)
               /\ hist' = Dispatched(h, st, s2,
                                     missing_on_osu' \cup missing_on_bloodcat)
    /\ UNCHANGED <<args, pc, checked, resume_file, exit_code, proc_vars,
                   bloodcat_errors_in_a_row, missing_on_bloodcat, done, ret>>

\* ('osu', set_id, osu.MapsetUnavailable)
HandleOsuUnavailable ==
    /\ Receiving
    /\ msg.worker = "osu"
    /\ msg.error = MapsetUnavailable
    /\ results_queue' = Tail(results_queue)
    /\ missing_on_osu' = missing_on_osu \cup {msg.set_id}
    /\ LET r == missing_on_osu_branch(dl_list, total, msg.set_id,
                                      missing_on_bloodcat)
           st == [Now EXCEPT !.dl = r.dl, !.osu_busy = FALSE]
           h == IF r.total # total
                THEN [hist EXCEPT !.dropped[msg.set_id] = @ + 1,
                                  !.requeue[msg.set_id] = "no"]
                ELSE hist
       IN /\ total' = r.total
          /\ \E s2 \in fill_queues(st) :
               /\ Filled(s2)
               /\ hist' = Dispatched(h, st, s2,
                                     missing_on_osu' \cup missing_on_bloodcat)
    /\ UNCHANGED <<args, pc, checked, resume_file, exit_code, proc_vars,
                   osu_errors_in_a_row, bloodcat_errors_in_a_row,
                   missing_on_bloodcat, done, ret>>

\* ('bloodcat', set_id, bloodcat.MapsetUnavailable)
HandleBloodcatUnavailable ==
    /\ Receiving
    /\ msg.worker = "bloodcat"
    /\ msg.error = MapsetUnavailable
    /\ results_queue' = Tail(results_queue)
    /\ missing_on_bloodcat' = missing_on_bloodcat \cup {msg.set_id}
    /\ LET r == missing_on_bloodcat_branch(dl_list, total, msg.set_id,
                                           missing_on_osu)
           st == [Now EXCEPT !.dl = r.dl, !.bloodcat_busy = FALSE]
           h == IF r.total # total
                THEN [hist EXCEPT !.dropped[msg.set_id] = @ + 1,
                                  !.requeue[msg.set_id] = "no"]
                ELSE hist
       IN /\ total' = r.total
          /\ \E s2 \in fill_queues(st) :
               /\ Filled(s2)
               /\ hist' = Dispatched(h, st, s2,
                                     missing_on_osu \cup missing_on_bloodcat')
    /\ UNCHANGED <<args, pc, checked, resume_file, exit_code, proc_vars,
                   osu_errors_in_a_row, bloodcat_errors_in_a_row,
                   missing_on_osu, done, ret>>

\* Faulty variant: a QuotaExceeded branch that clears osu_busy like the
\* MapsetUnavailable branch does.
HandleQuotaExceeded_free ==
    /\ Receiving
    /\ msg.worker = "osu"
    /\ msg.error = QuotaExceeded
    /\ results_queue' = Tail(results_queue)
    /\ dl_list' = requeue(dl_list, msg.set_id, missing_on_bloodcat)
    /\ osu_cooldown_proc' = "sleeping"
    /\ osu_busy' = FALSE
    /\ hist' = [hist EXCEPT !.requeue[msg.set_id] = "waiting"]
    /\ UNCHANGED <<args, pc, checked, resume_file, exit_code, osu_queue,
                   bloodcat_queue, osu_proc, bloodcat_proc, bloodcat_busy,
                   osu_errors_in_a_row, bloodcat_errors_in_a_row,
                   missing_on_osu, missing_on_bloodcat, total, done, ret>>

\* ('osu', set_id, osu.QuotaExceeded): the ID is put back, the cooldown
\* Process is started; osu_busy stays set and fill_queues is not called.
HandleQuotaExceeded ==
    /\ Receiving
    /\ msg.worker = "osu"
    /\ msg.error = QuotaExceeded
    /\ results_queue' = Tail(results_queue)
    /\ dl_list' = requeue(dl_list, msg.set_id, missing_on_bloodcat)
    /\ osu_cooldown_proc' = "sleeping"
    /\ hist' = [hist EXCEPT
                   !.requeue[msg.set_id] = "waiting",
                   !.re_quota[msg.set_id] =
                       IF msg.set_id \in missing_on_osu \cup missing_on_bloodcat
                       THEN @ + 1 ELSE @]
    /\ UNCHANGED <<args, pc, checked, resume_file, exit_code, osu_queue,
                   bloodcat_queue, osu_proc, bloodcat_proc, loop_vars>>

\* ('osu', set_id, any other error): retry the same ID, or cleanup() and
\* return 1.
HandleOsuError ==
    /\ Receiving
    /\ msg.worker = "osu"
    /\ msg.error = OtherError
    /\ results_queue' = Tail(results_queue)
    /\ hist' = [hist EXCEPT !.osu_streak = @ + 1]
    /\ IF may_retry(osu_errors_in_a_row)
       THEN /\ osu_errors_in_a_row' = osu_errors_in_a_row + 1
            /\ osu_queue' = Append(osu_queue, msg.set_id)
            /\ UNCHANGED <<pc, ret>>
       ELSE /\ pc' = "cleanup_osu"
            /\ ret' = 1
            /\ UNCHANGED <<osu_errors_in_a_row, osu_queue>>
    /\ UNCHANGED <<args, dl_list, checked, resume_file, exit_code,
                   bloodcat_queue, proc_vars, osu_busy, bloodcat_busy,
                   bloodcat_errors_in_a_row, missing_on_osu,
                   missing_on_bloodcat, total, done>>

\* Faulty variant: a retry that clears bloodcat_busy as a new dispatch would.
HandleBloodcatError_idle ==
    /\ Receiving
    /\ msg.worker = "bloodcat"
    /\ msg.error = OtherError
    /\ results_queue' = Tail(results_queue)
    /\ hist' = [hist EXCEPT !.bloodcat_streak = @ + 1]
    /\ IF may_retry(bloodcat_errors_in_a_row)
       THEN /\ bloodcat_errors_in_a_row' = bloodcat_errors_in_a_row + 1
            /\ bloodcat_queue' = Append(bloodcat_queue, msg.set_id)
            /\ bloodcat_busy' = FALSE
            /\ UNCHANGED <<pc, ret>>
       ELSE /\ pc' = "cleanup_osu"
            /\ ret' = 1
            /\ UNCHANGED <<bloodcat_errors_in_a_row, bloodcat_queue,
                           bloodcat_busy>>
    /\ UNCHANGED <<args, dl_list, checked, resume_file, exit_code,
                   osu_queue, proc_vars, osu_busy,
                   osu_errors_in_a_row, missing_on_osu,
                   missing_on_bloodcat, total, done>>

\* ('bloodcat', set_id, any other error)
HandleBloodcatError ==
    /\ Receiving
    /\ msg.worker = "bloodcat"
    /\ msg.error = OtherError
    /\ results_queue' = Tail(results_queue)
    /\ hist' = [hist EXCEPT !.bloodcat_streak = @ + 1]
    /\ IF may_retry(bloodcat_errors_in_a_row)
       THEN /\ bloodcat_errors_in_a_row' = bloodcat_errors_in_a_row + 1
            /\ bloodcat_queue' = Append(bloodcat_queue, msg.set_id)
            /\ UNCHANGED <<pc, ret>>
       ELSE /\ pc' = "cleanup_osu"
            /\ ret' = 1
            /\ UNCHANGED <<bloodcat_errors_in_a_row, bloodcat_queue>>
    /\ UNCHANGED <<args, dl_list, checked, resume_file, exit_code,
                   osu_queue, proc_vars, osu_busy, bloodcat_busy,
                   osu_errors_in_a_row, missing_on_osu,
                   missing_on_bloodcat, total, done>>

\* "while done < total" is false: cleanup() and return 0.
LoopDone ==
    /\ pc = "loop"
    /\ ~(done < total)
    /\ pc' = "cleanup_osu"
    /\ ret' = 0
    /\ UNCHANGED <<args, dl_list, checked, resume_file, exit_code, queue_vars,
                   proc_vars, osu_busy, bloodcat_busy, osu_errors_in_a_row,
                   bloodcat_errors_in_a_row, missing_on_osu,
                   missing_on_bloodcat, total, done, hist>>

\* cleanup(): "if args.use_osu: osu_queue.put('stop')"; the put waits while
\* the single-slot inbox is full.
CleanupOsu ==
    /\ pc = "cleanup_osu"
    /\ IF use_osu
       THEN /\ Len(osu_queue) < 1
            /\ osu_queue' = Append(osu_queue, "stop")
       ELSE UNCHANGED osu_queue
    /\ pc' = "cleanup_bloodcat"
    /\ UNCHANGED <<args, dl_list, checked, resume_file, exit_code,
                   bloodcat_queue, results_queue, proc_vars, loop_vars, hist>>

\* Faulty variant: a cleanup() that forgets the 'stop' for bloodcat.
CleanupBloodcat_nostop ==
    /\ pc = "cleanup_bloodcat"
    /\ pc' = "cleanup_cooldown"
    /\ UNCHANGED <<args, dl_list, checked, resume_file, exit_code,
                   queue_vars, proc_vars, loop_vars, hist>>

\* cleanup(): "if args.use_bloodcat: bloodcat_queue.put('stop')"
CleanupBloodcat ==
    /\ pc = "cleanup_bloodcat"
    /\ IF use_bloodcat
       THEN /\ Len(bloodcat_queue) < 1
            /\ bloodcat_queue' = Append(bloodcat_queue, "stop")
       ELSE UNCHANGED bloodcat_queue
    /\ pc' = "cleanup_cooldown"
    /\ UNCHANGED <<args, dl_list, checked, resume_file, exit_code,
                   osu_queue, results_queue, proc_vars, loop_vars, hist>>

\* Faulty variant: a cleanup() that leaves the cooldown Process alone.
CleanupCooldown_nokill ==
    /\ pc = "cleanup_cooldown"
    /\ pc' = "exit"
    /\ exit_code' = ret
    /\ UNCHANGED <<args, dl_list, checked, resume_file, queue_vars,
                   proc_vars, loop_vars, hist>>

\* cleanup(): "if osu_cooldown_proc.is_alive(): osu_cooldown_proc.kill()",
\* then download() returns and main() returns its value.
CleanupCooldown ==
    /\ pc = "cleanup_cooldown"
    /\ osu_cooldown_proc' = IF osu_cooldown_proc = "sleeping"
                            THEN "killed"
                            ELSE osu_cooldown_proc
    /\ pc' = "exit"
    /\ exit_code' = ret
    /\ UNCHANGED <<args, dl_list, checked, resume_file, queue_vars,
                   osu_proc, bloodcat_proc, loop_vars, hist>>

\* ---------------------------------------------------------- specification
Main ==
    \/ ScanExisting
    \/ NewDownloaders
    \/ PrecheckResumed
    \/ CheckAvailability
    \/ FinishAvailability
    \/ WriteResumeFile
    \/ StartDownload

Orchestrator ==
    \/ HandleTimer
    \/ HandleSuccess
    \/ HandleOsuUnavailable
    \/ HandleBloodcatUnavailable
    \/ HandleQuotaExceeded
    \/ HandleOsuError
    \/ HandleBloodcatError
    \/ LoopDone
    \/ CleanupOsu
    \/ CleanupBloodcat
    \/ CleanupCooldown

Workers ==
    \/ OsuWorkerGet
    \/ OsuWorkerDownload
    \/ BloodcatWorkerGet
    \/ BloodcatWorkerDownload
    \/ Cooldown

Next == Main \/ Orchestrator \/ Workers

Spec == Init /\ [][Next]_vars

\* _main alone, up to and including the start of download().
MainSpec == Init /\ [][Main]_vars

\* download() alone, from every state it can be called in.
NextDownload == StartDownload \/ Orchestrator \/ Workers

DownloadSpec == InitDownload /\ [][NextDownload]_vars

\* The main process keeps running, each Worker process keeps running, every
\* fetch returns, and a cooldown that is not killed wakes up.
Fairness ==
    /\ WF_vars(StartDownload \/ Orchestrator)
    /\ WF_vars(OsuWorkerGet \/ OsuWorkerDownload)
    /\ WF_vars(BloodcatWorkerGet \/ BloodcatWorkerDownload)
    /\ WF_vars(Cooldown)

FairDownloadSpec == DownloadSpec /\ Fairness

\* write_resume_file and read_resume_file alone, on every partition of up to
\* MaxIds + 1 IDs that has not been resumed.
RoundTripIds == {IdNames[i] : i \in 1..(MaxIds + 1)}

InitRoundTrip ==
    /\ use_osu = TRUE
    /\ use_bloodcat = TRUE
    /\ dl_list \in {dl \in {DownloadList(b, o, m, FALSE) :
                               b \in SUBSET RoundTripIds,
                               o \in SUBSET RoundTripIds,
                               m \in SUBSET RoundTripIds}
                      : Disjoint(dl)}
    /\ pc = "write_resume"
    /\ NotStarted

NextRoundTrip == WriteResumeFile \/ ReadResumeFile

RoundTripSpec == InitRoundTrip /\ [][NextRoundTrip]_vars

\* One call of dl_list.next_for_osu() on its own.
NextForOsu ==
    /\ pc = "start"
    /\ \E r \in next_for_osu(dl_list) :
         /\ dl_list' = r.dl
         /\ hist' = [hist EXCEPT !.returned = <<"osu", r.item>>]
    /\ UNCHANGED <<args, pc, checked, resume_file, exit_code, download_vars>>

\* One call of dl_list.next_for_bloodcat() on its own.
NextForBloodcat ==
    /\ pc = "start"
    /\ \E r \in next_for_bloodcat(dl_list) :
         /\ dl_list' = r.dl
         /\ hist' = [hist EXCEPT !.returned = <<"bloodcat", r.item>>]
    /\ UNCHANGED <<args, pc, checked, resume_file, exit_code, download_vars>>

\* next_for_osu and next_for_bloodcat alone, called in any order on every
\* disjoint partition of up to MaxIds + 1 IDs.
InitNextFor ==
    /\ use_osu = TRUE
    /\ use_bloodcat = TRUE
    /\ dl_list \in {dl \in {DownloadList(b, o, m, FALSE) :
                               b \in SUBSET RoundTripIds,
                               o \in SUBSET RoundTripIds,
                               m \in SUBSET RoundTripIds}
                      : Disjoint(dl)}
    /\ pc = "start"
    /\ NotStarted

NextNextFor == NextForOsu \/ NextForBloodcat

NextForSpec == InitNextFor /\ [][NextNextFor]_vars
\* download() called on the partition read_ids makes of an ids file whose
\* lines are among 'stop' and MaxIds - 1 digit strings.
StopLineIds == {"stop"} \cup {IdNames[i] : i \in 1..(MaxIds - 1)}

InitStopLine ==
    /\ use_osu \in BOOLEAN
    /\ use_bloodcat \in BOOLEAN
    /\ use_osu \/ use_bloodcat
    /\ dl_list \in {DownloadList(b, {}, {}, FALSE) :
                       b \in (SUBSET StopLineIds) \ {{}}}
    /\ pc = "start"
    /\ NotStarted

StopLineSpec == InitStopLine /\ [][NextDownload]_vars

\* ------------------------------------------------------------- properties
RECURSIVE SumOver(_, _)
SumOver(f, S) ==
    IF S = {} THEN 0
    ELSE LET x == CHOOSE y \in S : TRUE IN f[x] + SumOver(f, S \ {x})

InPartition(dl) == dl.osu_and_bloodcat \cup dl.osu_only \cup dl.bloodcat_only

\* The IDs a service has in flight, one entry each: those in its inbox, the
\* one its Worker is fetching, and those whose outcome is not yet consumed.
InFlightSeq(name, in_queue, proc) ==
    SelectSeq(in_queue, LAMBDA x : x # "stop")
        \o (IF proc.state = "fetching" THEN <<proc.set_id>> ELSE <<>>)
        \o [i \in 1..Len(SelectSeq(results_queue, LAMBDA m : m.worker = name))
              |-> SelectSeq(results_queue, LAMBDA m : m.worker = name)[i].set_id]

InFlightOsu == InFlightSeq("osu", osu_queue, osu_proc)
InFlightBloodcat == InFlightSeq("bloodcat", bloodcat_queue, bloodcat_proc)
InFlightCount == Len(InFlightOsu) + Len(InFlightBloodcat)
InFlightIds == Range(InFlightOsu) \cup Range(InFlightBloodcat)

\* The orchestrator takes the outcome at the head of the results queue.
Consumes(name, error) ==
    /\ Receiving
    /\ msg.worker = name
    /\ msg.error = error
    /\ results_queue' = Tail(results_queue)

\* update_bloodcat_availability is inside its loop, or an exception ended it.
InsidePrecheck == checked # {}

\* C1: the three sets of the work partition are pairwise disjoint in every
\* state of a run outside the loop of the availability pre-check: before and
\* after the pre-check, after every next_for pop and after the handling of
\* every outcome.
C1_PartitionDisjoint == ~InsidePrecheck => Disjoint(dl_list)

\* A run from a plain ID file whose pre-check moved an ID into osu_only and
\* whose loop has put an ID back after QuotaExceeded.
C1_Witness ==
    /\ pc = "loop"
    /\ resume_file # <<>>
    /\ Len(json_load(resume_file[1]).osu_exc) > 0
    /\ osu_cooldown_proc = "sleeping"
    /\ dl_list.osu_only # {}

\* C2: no ID is fetched successfully twice: no ID is in flight on both
\* services at once, an ID in flight is in none of the three sets, and an ID
\* whose success outcome was consumed is neither in a set nor in flight again.
C2_FetchedAtMostOnce ==
    /\ \A x \in IDs : hist.successes[x] <= 1
    /\ Range(InFlightOsu) \cap Range(InFlightBloodcat) = {}
    /\ InFlightIds \cap InPartition(dl_list) = {}
    /\ \A x \in IDs :
         hist.successes[x] >= 1 => x \notin InPartition(dl_list) \cup InFlightIds

\* One ID has succeeded and another, put back after QuotaExceeded, is in
\* flight again.
C2_Witness ==
    /\ \E x \in IDs : hist.successes[x] = 1
    /\ InFlightIds # {}
    /\ osu_cooldown_proc = "finished"

\* C3: each service has at most one ID in flight (inbox, Worker, outcome not
\* yet consumed), and no inbox ever holds more than its single slot.
C3_OneInFlightPerService ==
    /\ Len(InFlightOsu) <= 1
    /\ Len(InFlightBloodcat) <= 1
    /\ Len(osu_queue) <= 1
    /\ Len(bloodcat_queue) <= 1

\* Both services busy with a request, osu! after a cooldown re-dispatch and
\* a direct retry.
C3_Witness ==
    /\ Len(InFlightOsu) = 1
    /\ Len(InFlightBloodcat) = 1
    /\ osu_cooldown_proc = "finished"
    /\ osu_errors_in_a_row > 0
    /\ Len(osu_queue) = 1

\* C4: while the loop of download() runs, total - done equals len(dl_list)
\* plus the number of IDs in flight, and equals the initial count minus the
\* successes and the dropped IDs; when the loop ends with done = total the
\* partition and the in-flight work are empty.
C4_OutstandingWork ==
    /\ pc = "loop" =>
         /\ total - done = Size(dl_list) + InFlightCount
         /\ total - done = hist.initial_count - SumOver(hist.successes, IDs)
                               - SumOver(hist.dropped, IDs)
    /\ ret = 0 =>
         /\ Size(dl_list) = 0
         /\ InFlightCount = 0
         /\ hist.initial_count = SumOver(hist.successes, IDs)
                                     + SumOver(hist.dropped, IDs)

\* A run that ended successfully after both a success and a dropped ID.
C4_Witness ==
    /\ ret = 0
    /\ SumOver(hist.successes, IDs) >= 1
    /\ SumOver(hist.dropped, IDs) >= 1

\* No ID sits in the exclusive set of a disabled service.
NoStranded(dl) ==
    /\ use_osu \/ dl.osu_only = {}
    /\ use_bloodcat \/ dl.bloodcat_only = {}

LoopEnded ==
    \/ /\ ret = 0
       /\ done = total
       /\ Size(dl_list) = 0
       /\ InFlightCount = 0
    \/ ret = 1

\* C5: a download() started with no ID in the exclusive set of a disabled
\* service leaves its loop: it reaches done = total with nothing left and
\* nothing in flight, or it gives up at the error ceiling.
C5_Terminates == (pc = "start" /\ NoStranded(dl_list)) ~> LoopEnded

\* A run that came to its end after a QuotaExceeded and a retried error.
C5_Witness ==
    /\ pc = "exit"
    /\ exit_code = 0
    /\ hist.quota > 0
    /\ osu_cooldown_proc = "finished"
    /\ hist.cleared # {}

\* C6: with both services enabled, an ID that both services reported
\* unavailable has been dropped from total exactly once and is never in a
\* set or in flight again.
C6_MissingOnBoth ==
    (use_osu /\ use_bloodcat) =>
        \A x \in missing_on_osu \cap missing_on_bloodcat :
            /\ hist.dropped[x] = 1
            /\ x \notin InPartition(dl_list)
            /\ x \notin InFlightIds

\* An ID reported unavailable by both services while the run goes on.
C6_Witness ==
    /\ use_osu /\ use_bloodcat
    /\ pc = "loop"
    /\ done < total
    /\ missing_on_osu \cap missing_on_bloodcat # {}

\* C7, as stated: an ID known to be unavailable on one service is dispatched
\* exactly once more (here: never more than once).
C7_Original ==
    (use_osu /\ use_bloodcat) => \A x \in IDs : hist.re_dispatch[x] <= 1

\* An ID in the exclusive set of an enabled service is dispatched unless the
\* run gives up.
C7_Redispatched ==
    \A x \in IDs :
        (/\ use_osu /\ use_bloodcat
         /\ pc = "loop"
         /\ x \in dl_list.osu_only \cup dl_list.bloodcat_only)
            ~> (x \notin InPartition(dl_list) \/ ret = 1)

C7_OnlyOtherService ==
    (use_osu /\ use_bloodcat) =>
        \A x \in IDs :
            /\ hist.re_dispatch[x] <= 1 + hist.re_quota[x]
            /\ x \in missing_on_osu => x \notin Range(InFlightOsu)
            /\ x \in missing_on_bloodcat => x \notin Range(InFlightBloodcat)

\* C7, amended: an ID reported unavailable by one service is never again
\* sent to that service; it is dispatched to the other service once, and
\* once more after each QuotaExceeded outcome it then gets from osu!; and it
\* is dispatched at least once unless the run gives up.
C7_OtherServiceOnly == []C7_OnlyOtherService /\ C7_Redispatched

\* An ID missing on one service went to the other twice, a QuotaExceeded
\* outcome in between.
C7_Witness ==
    /\ use_osu /\ use_bloodcat
    /\ \E x \in IDs : hist.re_dispatch[x] = 2 /\ hist.re_quota[x] = 1

\* C8, as stated: once a service has had max_errors_in_a_row errors since its
\* last success, the run has been given up.
C8_Original ==
    /\ hist.osu_streak >= max_errors_in_a_row => ret = 1
    /\ hist.bloodcat_streak >= max_errors_in_a_row => ret = 1

\* What the orchestrator does with the error outcome of a service that had
\* streak errors since its last success, its inbox being in_queue.
ErrorStep(name, streak, in_queue) ==
    Consumes(name, OtherError) =>
        IF streak < max_errors_in_a_row
        THEN in_queue' = <<msg.set_id>> /\ pc' = "loop" /\ ret' = NoExit
        ELSE ret' = 1 /\ pc' = "cleanup_osu"

\* C8, amended: the first max_errors_in_a_row errors of a service since its
\* last success are retried with the same ID; the next one ends the run,
\* and main() then returns 1.
C8_CeilingPlusOne ==
    /\ [][/\ ErrorStep("osu", hist.osu_streak, osu_queue)
          /\ ErrorStep("bloodcat", hist.bloodcat_streak, bloodcat_queue)
          /\ (ret = 1 /\ pc' = "exit") => exit_code' = 1]_vars
    /\ [](ret = 1 => \/ hist.osu_streak = max_errors_in_a_row + 1
                     \/ hist.bloodcat_streak = max_errors_in_a_row + 1)

\* main() returned 1 after osu! failed max_errors_in_a_row + 1 times.
C8_Witness ==
    /\ pc = "exit"
    /\ exit_code = 1
    /\ hist.osu_streak = max_errors_in_a_row + 1

\* C9: a success outcome of a service sets its error counter to zero, and
\* an error that is at most the (max_errors_in_a_row - 1)-th since that
\* success does not end the run.
C9_SuccessResets ==
    [][/\ Consumes("osu", NoError) => osu_errors_in_a_row' = 0
       /\ Consumes("bloodcat", NoError) => bloodcat_errors_in_a_row' = 0
       /\ (Consumes("osu", OtherError)
             /\ hist.osu_streak < max_errors_in_a_row - 1)
            => (ret' = NoExit /\ pc' = "loop")
       /\ (Consumes("bloodcat", OtherError)
             /\ hist.bloodcat_streak < max_errors_in_a_row - 1)
            => (ret' = NoExit /\ pc' = "loop")]_vars

\* osu! failed max_errors_in_a_row - 1 times, succeeded, and failed
\* max_errors_in_a_row - 1 times again: the run goes on.
C9_Witness ==
    /\ "osu" \in hist.cleared
    /\ hist.osu_streak = max_errors_in_a_row - 1
    /\ osu_errors_in_a_row = max_errors_in_a_row - 1
    /\ pc = "loop"
    /\ ret = NoExit

\* C10: handling QuotaExceeded leaves total and done alone, puts the ID back
\* into the partition (len(dl_list) one more) and ends its flight.
C10_QuotaKeepsTotal ==
    [][Consumes("osu", QuotaExceeded) =>
         /\ total' = total
         /\ done' = done
         /\ msg.set_id \in InPartition(dl_list')
         /\ Size(dl_list') = Size(dl_list) + 1
         /\ InFlightCount' = InFlightCount - 1]_vars

\* A QuotaExceeded outcome has been handled: the ID is back, osu! cools down.
C10_Witness ==
    /\ pc = "loop"
    /\ osu_cooldown_proc = "sleeping"
    /\ hist.quota > 0
    /\ Size(dl_list) > 0
    /\ InFlightOsu = <<>>

\* A cooldown Process is asleep, or its outcome waits in the results queue of
\* a running loop.
CooldownPending ==
    \/ osu_cooldown_proc = "sleeping"
    \/ \E i \in 1..Len(results_queue) : results_queue[i].worker = "timer"

\* C11, as stated: after QuotaExceeded for an ID, the timer outcome is
\* consumed and the ID is dispatched again after that, unless the run is
\* given up.
C11_Original ==
    \A x \in IDs :
        /\ (hist.requeue[x] = "waiting")
              ~> (ret = 1 \/ (osu_cooldown_proc = "finished" /\ ~CooldownPending))
        /\ (hist.requeue[x] = "waiting")
              ~> (ret = 1 \/ hist.requeue[x] = "late")

\* C11, amended: after QuotaExceeded for an ID, the ID is dispatched again
\* unless the run is given up, to osu! only once the timer outcome has been
\* consumed, to bloodcat possibly before that; and the timer outcome is
\* consumed unless download() comes to its end (0 or 1) first.
C11_RedispatchedOrEnded ==
    /\ \A x \in IDs :
          (hist.requeue[x] = "waiting" /\ x \in InPartition(dl_list))
              ~> (ret = 1 \/ x \in InFlightIds)
    /\ (osu_cooldown_proc = "sleeping") ~> (~CooldownPending \/ ret # NoExit)
    /\ []((pc = "loop" /\ CooldownPending) => InFlightOsu = <<>>)

\* An ID put back after QuotaExceeded went to osu! again once the timer
\* outcome had been consumed.
C11_Witness ==
    /\ \E x \in IDs : hist.requeue[x] = "late" /\ x \in Range(InFlightOsu)
    /\ osu_cooldown_proc = "finished"
    /\ ~CooldownPending

\* No Worker process and no cooldown process is running.
NoUnitRunning ==
    /\ osu_proc.state \in {"unstarted", "exited"}
    /\ bloodcat_proc.state \in {"unstarted", "exited"}
    /\ osu_cooldown_proc # "sleeping"

\* download() has returned 1.
Aborted == pc = "exit" /\ ret = 1

StopSent(proc, in_queue) ==
    \/ proc.state = "exited"
    \/ in_queue # <<>> /\ in_queue[Len(in_queue)] = "stop"

Completed == pc = "exit" /\ ret = 0

\* C13: when the loop ends with done = total, download() returns 0, also
\* when IDs were dropped; by then 'stop' is in the inbox of every enabled
\* Worker, and every Worker ends; a cooldown still asleep when cleanup()
\* looks at it is killed, and no outcome is put after download() returned.
C13_CompletionStopsAll ==
    /\ (pc = "loop" /\ ~(done < total)) ~> Completed
    /\ [](Completed =>
            /\ exit_code = 0
            /\ done = total
            /\ osu_cooldown_proc # "sleeping"
            /\ IF use_osu THEN StopSent(osu_proc, osu_queue)
                          ELSE osu_proc.state = "unstarted"
            /\ IF use_bloodcat THEN StopSent(bloodcat_proc, bloodcat_queue)
                               ELSE bloodcat_proc.state = "unstarted")
    /\ (ret = 0) ~> [](Completed /\ NoUnitRunning)
    /\ [][Completed => results_queue' = results_queue]_vars
    /\ [][(pc = "cleanup_cooldown" /\ osu_cooldown_proc = "sleeping"
             /\ pc' = "exit") => osu_cooldown_proc' = "killed"]_vars

\* A run ended with 0 after an ID was dropped; the cooldown, still asleep,
\* was killed, and both Workers have ended.
C13_Witness ==
    /\ Completed
    /\ exit_code = 0
    /\ SumOver(hist.dropped, IDs) >= 1
    /\ osu_cooldown_proc = "killed"
    /\ use_osu /\ use_bloodcat
    /\ NoUnitRunning

\* C14: read_resume_file of what write_resume_file wrote for a partition
\* gives the same three sets, whatever the order of the lists, with resumed
\* set.
C14_RoundTrip ==
    [][(pc = "start" /\ pc' = "scan") =>
         /\ dl_list'.osu_and_bloodcat = dl_list.osu_and_bloodcat
         /\ dl_list'.osu_only = dl_list.osu_only
         /\ dl_list'.bloodcat_only = dl_list.bloodcat_only
         /\ dl_list'.resumed
         /\ ~dl_list.resumed]_vars

\* A partition with one ID in osu_and_bloodcat and two in osu_only was
\* written, the two in the order "2", "1", and loaded again.
C14_Witness ==
    /\ pc = "scan"
    /\ resume_file # <<>>
    /\ dl_list.resumed
    /\ Cardinality(dl_list.osu_and_bloodcat) = 1
    /\ Cardinality(dl_list.osu_only) = 2
    /\ json_load(resume_file[1]).osu_exc = <<"2", "1">>

\* download() has not been entered: no queue, no Process, nothing dispatched.
NothingStarted ==
    /\ osu_proc = Proc("unstarted", "")
    /\ bloodcat_proc = Proc("unstarted", "")
    /\ osu_cooldown_proc = "unstarted"
    /\ osu_queue = <<>>
    /\ bloodcat_queue = <<>>
    /\ results_queue = <<>>
    /\ ~osu_busy /\ ~bloodcat_busy
    /\ total = 0 /\ done = 0

\* C15: once check_availability has raised, main() has returned 1, and that
\* is the end of the run: no Worker was or will be started, no ID
\* dispatched, no resume file written.
C15_PrecheckFailureAborts ==
    /\ [](hist.check_failed =>
            /\ pc = "exit"
            /\ exit_code = 1
            /\ NothingStarted
            /\ resume_file = <<>>
            /\ hist.snapshots = 0)
    /\ [][hist.check_failed => vars' = vars]_vars

\* The second existence check of a run raised, after the first had found
\* its ID unavailable.
C15_Witness ==
    /\ hist.check_failed
    /\ pc = "exit"
    /\ Cardinality(checked) = 2
    /\ dl_list.osu_only # {}

\* C16: the pre-check of a list that was not resumed, no check raising:
\* while it loops, osu_and_bloodcat and bloodcat_only stay as they were;
\* when it ends, osu_and_bloodcat is its old value without the IDs reported
\* unavailable, osu_only is its old value (empty for such a list) plus
\* these IDs, bloodcat_only is unchanged and the size is what it was.
C16_PrecheckResult ==
    /\ [][(pc = "precheck" /\ ~dl_list.resumed /\ pc' = "precheck") =>
            /\ dl_list'.osu_and_bloodcat = dl_list.osu_and_bloodcat
            /\ dl_list'.bloodcat_only = dl_list.bloodcat_only
            /\ dl_list.osu_only = hist.reported
            /\ hist.reported \subseteq dl_list.osu_and_bloodcat]_vars
    /\ [][(pc = "precheck" /\ ~dl_list.resumed /\ pc' = "write_resume") =>
            /\ checked = dl_list.osu_and_bloodcat
            /\ dl_list'.osu_and_bloodcat =
                   dl_list.osu_and_bloodcat \ hist.reported
            /\ dl_list'.osu_only = hist.reported
            /\ dl_list'.bloodcat_only = dl_list.bloodcat_only
            /\ Size(dl_list') = Cardinality(dl_list.osu_and_bloodcat)
                                    + Cardinality(dl_list.bloodcat_only)
            /\ Disjoint(dl_list')]_vars
    /\ []((pc \in {"scan", "login"} /\ ~dl_list.resumed) =>
             dl_list.osu_only = {} /\ dl_list.bloodcat_only = {})

\* A pre-check ended that found one ID available and one unavailable.
C16_Witness ==
    /\ pc = "write_resume"
    /\ ~dl_list.resumed
    /\ use_osu /\ use_bloodcat
    /\ Cardinality(dl_list.osu_and_bloodcat) = 1
    /\ dl_list.osu_only = hist.reported
    /\ Cardinality(hist.reported) = 1

\* C17: a resume file is written at most once in a run, in the step after
\* the pre-check and before download() starts anything, and it holds the
\* partition the pre-check left; once written it stays as it is.  A run
\* started from a resume file makes no existence check, goes through the
\* pre-check step with its partition unchanged, and writes no resume file.
C17_SnapshotOrdering ==
    /\ [](hist.snapshots <= 1 /\ (resume_file # <<>> <=> hist.snapshots = 1))
    /\ [][resume_file' # resume_file =>
            /\ resume_file = <<>>
            /\ pc = "write_resume" /\ pc' = "start"
            /\ ~InsidePrecheck
            /\ use_osu /\ use_bloodcat
            /\ NothingStarted /\ NothingStarted'
            /\ dl_list' = dl_list
            /\ read_resume_file(resume_file'[1]) =
                   [dl_list EXCEPT !.resumed = TRUE]]_vars
    /\ [](dl_list.resumed =>
            /\ resume_file = <<>>
            /\ checked = {}
            /\ hist.reported = {}
            /\ ~hist.check_failed)
    /\ [][(dl_list.resumed /\ pc = "precheck") =>
            (dl_list' = dl_list /\ pc' = "write_resume")]_vars
    /\ [][(dl_list.resumed /\ pc = "write_resume") =>
            (dl_list' = dl_list /\ pc' = "start")]_vars

\* A run from a plain ID file downloads after it wrote its resume file.
C17_Witness ==
    /\ pc = "loop"
    /\ ~dl_list.resumed
    /\ hist.snapshots = 1
    /\ resume_file # <<>>
    /\ done >= 1

\* A run from a resume file of both services downloads without having
\* written one.
C17_WitnessResumed ==
    /\ pc = "loop"
    /\ dl_list.resumed
    /\ use_osu /\ use_bloodcat
    /\ resume_file = <<>>

\* C18: QuotaExceeded for an ID puts it into osu_and_bloodcat if bloodcat is
\* enabled and the ID is not in missing_on_bloodcat, else into osu_only,
\* and changes nothing else of the partition; missing_on_bloodcat starts as
\* the osu_only of the pre-check or the resume file, only grows, and takes
\* every ID bloodcat reports unavailable.
C18_RequeueTarget ==
    /\ [][Consumes("osu", QuotaExceeded) =>
            /\ IF use_bloodcat /\ msg.set_id \notin missing_on_bloodcat
               THEN dl_list' = [dl_list EXCEPT
                                  !.osu_and_bloodcat = @ \cup {msg.set_id}]
               ELSE dl_list' = [dl_list EXCEPT
                                  !.osu_only = @ \cup {msg.set_id}]
            /\ msg.set_id \notin dl_list'.bloodcat_only
            /\ msg.set_id \notin InPartition(dl_list)
            /\ missing_on_bloodcat' = missing_on_bloodcat]_vars
    /\ [][(pc = "start" /\ pc' = "loop") =>
            missing_on_bloodcat' = dl_list.osu_only]_vars
    /\ [][pc = "loop" => missing_on_bloodcat \subseteq missing_on_bloodcat']_vars
    /\ [][Consumes("bloodcat", MapsetUnavailable) =>
            msg.set_id \in missing_on_bloodcat']_vars

\* With bloodcat enabled, an ID bloodcat had reported unavailable in this
\* run got QuotaExceeded and went back into osu_only.
C18_Witness ==
    /\ use_bloodcat
    /\ pc = "loop"
    /\ osu_cooldown_proc = "sleeping"
    /\ \E x \in dl_list.osu_only \cap missing_on_bloodcat :
          hist.requeue[x] = "waiting" /\ hist.re_quota[x] = 1

\* The outcomes of the cooldown that wait in the results queue.
TimerOutcomes == SelectSeq(results_queue, LAMBDA m : m.worker = "timer")

CouldDispatch ==
    \/ osu_is_free(Now) /\ \E r \in next_for_osu(dl_list) : r.item # <<>>
    \/ bloodcat_is_free(Now)
          /\ \E r \in next_for_bloodcat(dl_list) : r.item # <<>>

\* C20: whenever the loop of download() waits for an outcome, no enabled
\* service that is not busy has an ID it could be given: fill_queues has run
\* after every outcome that changed the partition or a busy flag.
C20_NothingLeftToDispatch ==
    (pc = "loop" /\ done < total) => ~CouldDispatch

\* The same, outside the time from the handling of QuotaExceeded to the
\* handling of the timer outcome.
C20_ExceptWhileCooling ==
    (pc = "loop" /\ done < total /\ ~CooldownPending) => ~CouldDispatch

\* The orchestrator takes an error outcome of the service name whose counter
\* errors is below max_errors_in_a_row.
Retries(name, errors) ==
    Consumes(name, OtherError) /\ errors < max_errors_in_a_row

\* What a retry leaves alone: the partition, both busy flags, done, total,
\* both missing sets, and the loop goes on.
RetryFrame ==
    /\ dl_list' = dl_list
    /\ osu_busy' = osu_busy
    /\ bloodcat_busy' = bloodcat_busy
    /\ done' = done
    /\ total' = total
    /\ missing_on_osu' = missing_on_osu
    /\ missing_on_bloodcat' = missing_on_bloodcat
    /\ pc' = pc

\* C21: an error outcome that finds its service's counter below
\* max_errors_in_a_row puts the same ID into the same service's (empty)
\* inbox, adds one to that counter, and changes neither the partition, the
\* busy flags, done, total, the missing sets, the other counter nor the
\* other inbox: fill_queues is not run.
C21_DirectRetry ==
    [][/\ Retries("osu", osu_errors_in_a_row) =>
            /\ osu_queue = <<>>
            /\ osu_queue' = <<msg.set_id>>
            /\ osu_errors_in_a_row' = osu_errors_in_a_row + 1
            /\ bloodcat_errors_in_a_row' = bloodcat_errors_in_a_row
            /\ bloodcat_queue' = bloodcat_queue
            /\ RetryFrame
       /\ Retries("bloodcat", bloodcat_errors_in_a_row) =>
            /\ bloodcat_queue = <<>>
            /\ bloodcat_queue' = <<msg.set_id>>
            /\ bloodcat_errors_in_a_row' = bloodcat_errors_in_a_row + 1
            /\ osu_errors_in_a_row' = osu_errors_in_a_row
            /\ osu_queue' = osu_queue
            /\ RetryFrame]_vars

\* Both services have their ID back in their inbox after one error each,
\* both still marked busy.
C21_Witness ==
    /\ pc = "loop"
    /\ osu_errors_in_a_row = 1
    /\ bloodcat_errors_in_a_row = 1
    /\ Len(osu_queue) = 1
    /\ Len(bloodcat_queue) = 1
    /\ osu_busy /\ bloodcat_busy
    /\ results_queue = <<>>

\* fill_queues runs in this step with both services enabled and neither busy:
\* the first fill_queues of download(), or the one of the timer branch while
\* bloodcat is not busy.
FillsBothIdle ==
    /\ use_osu /\ use_bloodcat
    /\ \/ pc = "start" /\ pc' = "loop"
       \/ Consumes("timer", NoError) /\ ~bloodcat_busy

\* The partition holds one ID, in osu_and_bloodcat.
OneForBoth ==
    /\ Cardinality(dl_list.osu_and_bloodcat) = 1
    /\ dl_list.osu_only = {}
    /\ dl_list.bloodcat_only = {}

\* C22: when fill_queues runs with both services enabled and not busy and the
\* partition holds a single ID, in osu_and_bloodcat, the ID goes into
\* bloodcat's inbox and osu! gets nothing.
C22_MirrorPreferred ==
    [][(FillsBothIdle /\ OneForBoth) =>
          /\ Range(bloodcat_queue') = dl_list.osu_and_bloodcat
          /\ bloodcat_busy'
          /\ osu_queue' = osu_queue
          /\ ~osu_busy']_vars

\* What fill_queues does in that case: the ID goes to osu! and bloodcat
\* stays idle.
C22_OsuFirst ==
    [][(FillsBothIdle /\ OneForBoth) =>
          /\ Range(osu_queue') = dl_list.osu_and_bloodcat
          /\ osu_busy'
          /\ bloodcat_queue' = bloodcat_queue
          /\ ~bloodcat_busy']_vars

\* A call of next_for_osu / next_for_bloodcat (name) has been made in this
\* step and returned item, own being the name of the service's exclusive set
\* and other that of the other service's: the ID comes out of own if own is
\* not empty, else out of osu_and_bloodcat if that is not empty, else None
\* is returned and nothing changes; other is never changed; len() drops by
\* one with every ID returned.
NextForStep(name, own, other) ==
    LET item == hist'.returned[2] IN
    (hist' # hist /\ hist'.returned[1] = name) =>
        /\ dl_list[own] # {} =>
              /\ item # <<>>
              /\ item[1] \in dl_list[own]
              /\ dl_list' = [dl_list EXCEPT ![own] = @ \ {item[1]}]
        /\ (dl_list[own] = {} /\ dl_list.osu_and_bloodcat # {}) =>
              /\ item # <<>>
              /\ item[1] \in dl_list.osu_and_bloodcat
              /\ dl_list' = [dl_list EXCEPT
                                !.osu_and_bloodcat = @ \ {item[1]}]
        /\ (dl_list[own] = {} /\ dl_list.osu_and_bloodcat = {}) =>
              /\ item = <<>>
              /\ dl_list' = dl_list
        /\ dl_list'[other] = dl_list[other]
        /\ item # <<>> => Size(dl_list') = Size(dl_list) - 1

\* C23: next_for_osu and next_for_bloodcat return and remove an ID of the
\* service's exclusive set whenever it is not empty, take from
\* osu_and_bloodcat only when it is empty, return None only when both are
\* empty, never touch the other service's exclusive set, and lower len() by
\* exactly one when they return an ID.
C23_NextFor ==
    [][/\ NextForStep("osu", "osu_only", "bloodcat_only")
       /\ NextForStep("bloodcat", "bloodcat_only", "osu_only")]_vars

\* next_for_bloodcat has returned the last ID bloodcat could take, while
\* osu_only still holds IDs.
C23_Witness ==
    /\ hist.returned # <<>>
    /\ hist.returned[1] = "bloodcat"
    /\ hist.returned[2] # <<>>
    /\ dl_list.bloodcat_only = {}
    /\ dl_list.osu_and_bloodcat = {}
    /\ Cardinality(dl_list.osu_only) >= 2

\* A step of the Worker name: taking an ID from its inbox starts one fetch
\* of that ID and puts nothing; the end of the fetch puts one outcome, with
\* the Worker's name and the ID fetched, and the Worker is back at its inbox.
WorkerStep(name, proc, in_queue) ==
    /\ (proc.state = "waiting" /\ proc'.state = "fetching") =>
          /\ in_queue # <<>>
          /\ proc'.set_id = Head(in_queue)
          /\ in_queue' = Tail(in_queue)
          /\ results_queue' = results_queue
    /\ (proc.state = "fetching" /\ proc' # proc) =>
          /\ proc'.state = "waiting"
          /\ in_queue' = in_queue
          /\ \E error \in {NoError, MapsetUnavailable, QuotaExceeded,
                            OtherError} :
                results_queue' =
                    Append(results_queue,
                           [worker |-> name, set_id |-> proc.set_id,
                            error |-> error])

\* An outcome is put in this step: one only, by a Worker that is fetching
\* or by the cooldown that is asleep.
OutcomePut ==
    Len(results_queue') > Len(results_queue) =>
        /\ Len(results_queue') = Len(results_queue) + 1
        /\ \/ osu_proc.state = "fetching" /\ osu_proc'.state = "waiting"
           \/ bloodcat_proc.state = "fetching"
                 /\ bloodcat_proc'.state = "waiting"
           \/ /\ osu_cooldown_proc = "sleeping"
              /\ osu_cooldown_proc' = "finished"
              /\ results_queue' =
                     Append(results_queue,
                            [worker |-> "timer", set_id |-> "",
                             error |-> NoError])

\* The outcome the orchestrator takes in this step is the one outcome of the
\* one ID its service has in flight, that service being marked busy, or the
\* one outcome of the cooldown.
OutcomeTaken ==
    (Receiving /\ results_queue' = Tail(results_queue)) =>
        \/ /\ msg.worker = "osu"
           /\ InFlightOsu = <<msg.set_id>>
           /\ osu_queue = <<>>
           /\ osu_proc.state = "waiting"
           /\ osu_busy
        \/ /\ msg.worker = "bloodcat"
           /\ InFlightBloodcat = <<msg.set_id>>
           /\ bloodcat_queue = <<>>
           /\ bloodcat_proc.state = "waiting"
           /\ bloodcat_busy
        \/ /\ msg = [worker |-> "timer", set_id |-> "", error |-> NoError]
           /\ Len(TimerOutcomes) = 1
           /\ osu_cooldown_proc = "finished"

\* C24: a Worker makes one fetch per ID it takes from its inbox and puts
\* one outcome for it, under its own name and with that ID; a step of a
\* Worker leaves the IDs its service has in flight as they are; while the
\* loop runs a service marked busy has exactly one ID in flight (none while
\* osu! waits for its cooldown) and one not marked busy has none; and every
\* outcome the orchestrator takes is the outcome of that one ID, or that of
\* the one cooldown.
C24_OneOutcomePerId ==
    /\ [][/\ WorkerStep("osu", osu_proc, osu_queue)
          /\ WorkerStep("bloodcat", bloodcat_proc, bloodcat_queue)
          /\ (osu_proc.state # "unstarted" /\ osu_proc' # osu_proc) =>
                InFlightOsu' = InFlightOsu
          /\ (bloodcat_proc.state # "unstarted"
                /\ bloodcat_proc' # bloodcat_proc) =>
                InFlightBloodcat' = InFlightBloodcat
          /\ OutcomePut
          /\ OutcomeTaken]_vars
    /\ [](pc = "loop" =>
            /\ Len(InFlightOsu) =
                   IF osu_busy /\ ~CooldownPending THEN 1 ELSE 0
            /\ Len(InFlightBloodcat) = IF bloodcat_busy THEN 1 ELSE 0)

\* The outcome of the cooldown and an outcome of bloodcat wait in the
\* results queue, osu! having answered QuotaExceeded before.
C24_Witness ==
    /\ pc = "loop"
    /\ Len(results_queue) = 2
    /\ results_queue[1].worker = "timer"
    /\ results_queue[2].worker = "bloodcat"
    /\ hist.quota = 1
    /\ osu_busy /\ bloodcat_busy

\* Something can still put an outcome on the results queue: an ID is in
\* flight, or a cooldown is asleep or has put its outcome.
OutcomeToCome == InFlightCount > 0 \/ CooldownPending

\* C25: IDs that download() finds in the exclusive set of a disabled service
\* are dispatched to an enabled service or dropped from total, so the loop
\* never waits on results_queue.get() with done < total while nothing is
\* left that could put an outcome.
C25_StrandedAccountedFor ==
    (pc = "loop" /\ done < total) => OutcomeToCome

\* The same for the runs whose partition has no ID in the exclusive set of
\* a disabled service.
C25_UnlessStranded ==
    (pc = "loop" /\ done < total /\ NoStranded(dl_list)) => OutcomeToCome

\* The counter errors of the service name changes in this step only by the
\* orchestrator taking an outcome of that service: an error adds one, a
\* success sets it to zero.
CounterStep(name, errors, errors_next) ==
    errors_next # errors =>
        \/ Consumes(name, OtherError) /\ errors_next = errors + 1
        \/ Consumes(name, NoError) /\ errors_next = 0

\* The counter of a service that had streak errors since its last success.
CounterOf(streak) ==
    IF streak < max_errors_in_a_row THEN streak ELSE max_errors_in_a_row

\* C26: osu_errors_in_a_row is changed only by osu!'s own error (plus one)
\* and success (zero) outcomes, bloodcat_errors_in_a_row only by bloodcat's;
\* MapsetUnavailable, QuotaExceeded and timer outcomes and the outcomes of
\* the other service leave a counter as it is, so it counts the errors of
\* its service since that service's last success (up to the ceiling),
\* whatever came in between.
C26_OwnOutcomesOnly ==
    /\ [][/\ CounterStep("osu", osu_errors_in_a_row, osu_errors_in_a_row')
          /\ CounterStep("bloodcat", bloodcat_errors_in_a_row,
                         bloodcat_errors_in_a_row')]_vars
    /\ [](/\ osu_errors_in_a_row = CounterOf(hist.osu_streak)
          /\ bloodcat_errors_in_a_row = CounterOf(hist.bloodcat_streak))

\* osu! has had an error, and now its MapsetUnavailable outcome is taken
\* next while another ID waits in the partition.
C26_Witness ==
    /\ Receiving
    /\ msg.worker = "osu"
    /\ msg.error = MapsetUnavailable
    /\ osu_errors_in_a_row = 1
    /\ Size(dl_list) > 0

\* fill_queues or a retry puts an ID into in_queue in this step: the inbox
\* was empty and its Worker, proc, sits at in_queue.get().
PutStep(in_queue, in_queue_next, proc_next) ==
    (Len(in_queue_next) > Len(in_queue) /\ pc' = "loop") =>
        /\ in_queue = <<>>
        /\ Len(in_queue_next) = 1
        /\ proc_next.state = "waiting"

\* An inbox never holds more than one entry, and an ID in it has its Worker
\* at in_queue.get(), about to take it.
InboxTaken(in_queue, proc) ==
    /\ Len(in_queue) <= 1
    /\ (in_queue # <<>> /\ Head(in_queue) # "stop") => proc.state = "waiting"

\* C27: every put of fill_queues and of a retry finds the inbox empty and
\* its Worker waiting on it, so it does not block; an inbox never holds more
\* than its one slot; and when the put of 'stop' in cleanup() finds the inbox
\* full, what fills it is one ID whose Worker is waiting to take it.
C27_PutsNeverBlock ==
    /\ [][/\ PutStep(osu_queue, osu_queue', osu_proc')
          /\ PutStep(bloodcat_queue, bloodcat_queue', bloodcat_proc')]_vars
    /\ [](/\ InboxTaken(osu_queue, osu_proc)
          /\ InboxTaken(bloodcat_queue, bloodcat_proc))
    /\ []((pc = "cleanup_osu" /\ use_osu /\ osu_queue # <<>>) =>
             (osu_queue[1] # "stop" /\ osu_proc.state = "waiting"))
    /\ []((pc = "cleanup_bloodcat" /\ use_bloodcat /\ bloodcat_queue # <<>>) =>
             (bloodcat_queue[1] # "stop" /\ bloodcat_proc.state = "waiting"))

\* The run is given up after errors of osu!: 'stop' is in osu!'s inbox, and
\* the put of 'stop' for bloodcat waits for the bloodcat Worker to take the
\* ID that is still in its inbox.
C27_Witness ==
    /\ pc = "cleanup_bloodcat"
    /\ ret = 1
    /\ use_bloodcat
    /\ osu_queue = <<"stop">>
    /\ Len(bloodcat_queue) = 1
    /\ bloodcat_queue[1] # "stop"
    /\ bloodcat_errors_in_a_row = 1

\* The Worker takes the entry of its inbox in this step, while the loop of
\* download() runs (the entry is an ID that fill_queues or a retry put):
\* it goes on to fetch that ID.
TakesId(in_queue, in_queue_next, proc, proc_next) ==
    (/\ pc = "loop"
     /\ proc.state = "waiting"
     /\ in_queue # <<>>
     /\ in_queue_next = Tail(in_queue)) =>
        proc_next = Proc("fetching", Head(in_queue))

\* C28: whatever line of the ids file an ID is, a Worker that takes it from
\* its inbox fetches it (and so answers with one outcome); the line 'stop' is
\* no exception.
C28_EveryLineFetched ==
    [][/\ TakesId(osu_queue, osu_queue', osu_proc, osu_proc')
       /\ TakesId(bloodcat_queue, bloodcat_queue', bloodcat_proc,
                  bloodcat_proc')]_vars

\* The same for every line but 'stop'.
C28_UnlessStop ==
    [][/\ (osu_queue # <<>> /\ Head(osu_queue) # "stop") =>
            TakesId(osu_queue, osu_queue', osu_proc, osu_proc')
       /\ (bloodcat_queue # <<>> /\ Head(bloodcat_queue) # "stop") =>
            TakesId(bloodcat_queue, bloodcat_queue', bloodcat_proc,
                    bloodcat_proc')]_vars

\* Once a Worker has taken the line 'stop' as an ID, the loop waits with
\* done < total and that service marked busy for ever.
C28_StopLineBlocks ==
    [][(/\ pc = "loop"
        /\ osu_busy
        /\ osu_proc.state = "exited") =>
          (pc' = "loop" => (osu_busy' /\ done' < total'))]_vars

====
